---- MODULE Spec2Model ----
(***************************************************************************)
(* A model of src/spectrogram_widget.py: the SpectrogramWidget event       *)
(* handlers (clicks, keys, buttons, sliders) and the two range sliders     *)
(* ValueSlider and PercentSlider.                                          *)
(*                                                                         *)
(* The collaborators Spectrogram, Spectrum, PeakFollower, GaussianFitter   *)
(* and Gaussian are not part of the file.  A call into one of them either  *)
(* returns or raises; the choice is an input of the action that makes the  *)
(* call.  A spectrogram is identified by the parameters it was computed    *)
(* with, and every datum derived from a spectrogram carries the parameters *)
(* of the spectrogram it was derived from.                                 *)
(***************************************************************************)
EXTENDS Integers, Sequences, FiniteSets, TLC

VARIABLES
    sg,                 \* self.spectrogram: the parameters it is computed with
    peak_followers,     \* self.peak_followers
    gauss_outs,         \* self.gauss_outs, and whether the attribute is set
    gauss,              \* self.gauss, if the attribute is set
    spectra,            \* self.spectra
    spectra_in_db,      \* self.spectra_in_db
    axSpectrogramLines, \* self.axSpectrogram.lines
    axSpectrumLines,    \* self.axSpectrum.lines
    selecting,          \* self.selecting
    marquee_active,     \* self.controls['marquee'].active
    roi,                \* self.roi
    threshold,          \* self.threshold
    image,              \* self.image (and its colorbar)
    clicker,            \* self.controls['clicker'].value
    color_bounds,       \* (_ymin, _ymax) of self.controls['intensity_range']
    figures,            \* figures created by gauss_out
    raised,             \* the exception the last operation let escape, or NoExc
    lastOp,             \* the last event or call
    vs,                 \* a ValueSlider: min, max, value, multiplier, _ymin, _ymax
    ps,                 \* a PercentSlider: value, _ymin, _ymax
    ctor,               \* the arguments the slider was constructed with, kept
                        \* while its value is the constructed one
    returned,           \* what the last call of a range getter returned
    baselines,          \* self.baselines
    baselines_method    \* self.controls['baselines'].value

sliderVars == <<vs, ps, ctor, returned>>

baselineVars == <<baselines, baselines_method>>

vars == <<sg, peak_followers, gauss_outs, gauss, spectra, spectra_in_db,
          axSpectrogramLines, axSpectrumLines, selecting, marquee_active,
          roi, threshold, image, clicker, color_bounds, figures, raised,
          lastOp, vs, ps, ctor, returned, baselines, baselines_method>>

----------------------------------------------------------------------------
(* Bounds of the model *)

MaxFollowers == 1
MaxRoi == 1
MaxFigures == 1

\* Peaks one baseline search finds, and baseline lines drawn in all
MaxBaselines == 2
MaxBaselineLines == 3

----------------------------------------------------------------------------
(* Values *)

None == "None"
NoExc == "none"
NoLine == [kind |-> "none", id |-> 0]

\* The value of a slider variable where no slider is followed
NoSlider == [value |-> <<>>]

\* An optional value is a sequence of length 0 (None) or 1
Some(x) == <<x>>
Nothing == <<>>

\* len(_colors) in SpectrogramWidget.spectrum
NumColors == 4

\* The options of the 'Click' dropdown
ClickOptions == {"Spectrum (dB)", "Spectrum", "Peak", "Gauss"}

\* Values of the FFT-size slider (2^n points) and of the overlap slider (%)
SpectrumSizes == {13, 14}
Overlaps == {0, 50}
SgParams == [points_per_spectrum : SpectrumSizes, overlap : Overlaps]

\* Values of the noise-floor slider
ThresholdValues == {0, 10}

\* Key values a key_press_event can carry.  None is the key of an
\* unrecognised key; "q" stands for the keys without a binding.
Digits == {"0", "9"}
Keys == {"x", "m", "M", "a", "A", "q", None} \cup Digits

\* int(char) for a digit key
int(char) ==
    CASE char = "0" -> 0
      [] char = "1" -> 1
      [] char = "2" -> 2
      [] char = "3" -> 3
      [] char = "4" -> 4
      [] char = "5" -> 5
      [] char = "6" -> 6
      [] char = "7" -> 7
      [] char = "8" -> 8
      [] char = "9" -> 9

\* The points (xdata, ydata) a marquee is dragged between
Corners == {<<1, 2>>, <<2, 1>>}

----------------------------------------------------------------------------
(* Artists on the two axes *)

\* The live line objects: those on an axes and those a spectrum or a
\* follower still refers to
LiveLines ==
    axSpectrogramLines \cup axSpectrumLines
      \cup {peak_followers[i].line : i \in 1..Len(peak_followers)}
      \cup {spectra[i].line : i \in 1..Len(spectra)}
      \cup {spectra[i].marker : i \in 1..Len(spectra)}

\* The identities in use among the live lines of one kind
UsedIds(kind) == {l.id : l \in {x \in LiveLines : x.kind = kind}}

\* The identity of a newly created line object
FreshId(used) ==
    CHOOSE i \in 1..(Cardinality(used) + 1) :
        i \notin used /\ \A j \in 1..(i - 1) : j \in used

\* axes.plot(...)[0]: a new line of the given kind
NewLine(kind) == [kind |-> kind, id |-> FreshId(UsedIds(kind))]

----------------------------------------------------------------------------
(* SpectrogramWidget.spectrum(the_time, form), the_time not None.          *)
(* fault = "raises": the Spectrum computation raises.                      *)

\* 'dB' in form
HasDb(form) == form = "Spectrum (dB)"

\* 'Spectrum' in action
HasSpectrum(action) == action \in {"Spectrum (dB)", "Spectrum"}

spectrum(form, fault) ==
    LET same == [exc |-> NoExc, spectra |-> spectra,
                 axSpectrumLines |-> axSpectrumLines,
                 axSpectrogramLines |-> axSpectrogramLines,
                 spectra_in_db |-> spectra_in_db]
    IN  IF fault = "raises"
        THEN [same EXCEPT !.exc = "Exception"]
        ELSE IF Len(spectra) >= NumColors
        THEN [same EXCEPT !.exc = "IndexError"]   \* _colors[len(self.spectra)]
        ELSE LET the_line == NewLine("spectrum")
                 marker == NewLine("marker")
                 spec == [line |-> the_line, marker |-> marker]
             IN  [exc |-> NoExc,
                  spectra |-> Append(spectra, spec),
                  axSpectrumLines |-> axSpectrumLines \cup {the_line},
                  axSpectrogramLines |-> axSpectrogramLines \cup {marker},
                  spectra_in_db |-> HasDb(form)]

----------------------------------------------------------------------------
(* SpectrogramWidget.follow(t, v, action)                                  *)
(* fault = "ctor_raises": the constructor of the fitter or follower raises *)
(* fault = "run_raises": follower.run(), v_of_t or the plot raises         *)

follow(action, fault) ==
    LET same == [exc |-> NoExc, peak_followers |-> peak_followers,
                 axSpectrogramLines |-> axSpectrogramLines, gauss |-> gauss]
    IN  IF action = "Gauss"
        THEN IF fault = "ctor_raises"
             THEN [same EXCEPT !.exc = "Exception"]
             ELSE [same EXCEPT !.gauss = Some("GaussianFitter")]
        ELSE IF action = "Peak"
        THEN IF fault = "ctor_raises"
             THEN [same EXCEPT !.exc = "Exception"]
             ELSE IF fault = "run_raises"
             THEN [same EXCEPT
                     !.exc = "Exception",
                     !.peak_followers =
                         Append(peak_followers, [line |-> NoLine, sg |-> sg])]
             ELSE LET line == NewLine("follower")
                  IN  [same EXCEPT
                         !.peak_followers =
                             Append(peak_followers, [line |-> line, sg |-> sg]),
                         !.axSpectrogramLines = axSpectrogramLines \cup {line}]
        ELSE same

----------------------------------------------------------------------------
(* SpectrogramWidget.handle_click(event)                                   *)

\* The handler without its try/except: the exception escapes
handle_click_reraise(exc) == exc

\* except Exception as eeps: pass
handle_click_except(exc) == NoExc

\* inside: the pointer is over the axes (event.xdata is not None)
handle_click(inside, fault) ==
    /\ UNCHANGED sliderVars
    /\ UNCHANGED baselineVars
    /\ lastOp' = [op |-> "handle_click", arg |-> ""]
    /\ UNCHANGED <<sg, gauss_outs, selecting, marquee_active, roi, threshold,
                   image, clicker, color_bounds, figures>>
    /\ IF ~inside \/ selecting
       THEN /\ raised' = NoExc
            /\ UNCHANGED <<peak_followers, gauss, spectra, spectra_in_db,
                           axSpectrogramLines, axSpectrumLines>>
       ELSE IF HasSpectrum(clicker)
       THEN LET r == spectrum(clicker, fault)
            IN  /\ raised' = handle_click_except(r.exc)
                /\ spectra' = r.spectra
                /\ spectra_in_db' = r.spectra_in_db
                /\ axSpectrumLines' = r.axSpectrumLines
                /\ axSpectrogramLines' = r.axSpectrogramLines
                /\ UNCHANGED <<peak_followers, gauss>>
       ELSE LET r == follow(clicker, fault)
            IN  /\ raised' = handle_click_except(r.exc)
                /\ peak_followers' = r.peak_followers
                /\ gauss' = r.gauss
                /\ axSpectrogramLines' = r.axSpectrogramLines
                /\ UNCHANGED <<spectra, spectra_in_db, axSpectrumLines>>

\* The faults the selected click action can meet
FaultsOf(action) ==
    IF HasSpectrum(action) THEN {"ok", "raises"}
    ELSE IF action = "Peak" THEN {"ok", "ctor_raises", "run_raises"}
    ELSE {"ok", "ctor_raises"}

Click ==
    \E inside \in BOOLEAN :
      \E fault \in (IF inside /\ ~selecting THEN FaultsOf(clicker) ELSE {"ok"}) :
        /\ (clicker = "Peak" /\ inside /\ ~selecting /\ fault # "ctor_raises")
              => Len(peak_followers) < MaxFollowers
        /\ handle_click(inside, fault)

\* The user picks an entry of the 'Click' dropdown
SetClicker ==
    \E v \in ClickOptions \ {clicker} :
        /\ clicker' = v
        /\ raised' = NoExc
        /\ UNCHANGED sliderVars
        /\ UNCHANGED baselineVars
        /\ lastOp' = [op |-> "set_clicker", arg |-> ""]
        /\ UNCHANGED <<sg, peak_followers, gauss_outs, gauss, spectra,
                       spectra_in_db, axSpectrogramLines, axSpectrumLines,
                       selecting, marquee_active, roi, threshold, image,
                       color_bounds, figures>>

----------------------------------------------------------------------------
(* SpectrogramWidget.clear_spectra()                                       *)

\* The loop without the removal of the spectrum's line from axSpectrum
RECURSIVE clear_spectra_loop_markers_only(_, _, _)
clear_spectra_loop_markers_only(i, gramLines, specLines) ==
    IF i > Len(spectra)
    THEN [exc |-> NoExc, axSpectrogramLines |-> gramLines,
          axSpectrumLines |-> specLines]
    ELSE IF spectra[i].marker \notin gramLines
    THEN [exc |-> "ValueError", axSpectrogramLines |-> gramLines,
          axSpectrumLines |-> specLines]
    ELSE clear_spectra_loop_markers_only(
             i + 1, gramLines \ {spectra[i].marker}, specLines)

\* list.remove(x) raises ValueError when x is not in the list
RECURSIVE clear_spectra_loop(_, _, _)
clear_spectra_loop(i, gramLines, specLines) ==
    IF i > Len(spectra)
    THEN [exc |-> NoExc, axSpectrogramLines |-> gramLines,
          axSpectrumLines |-> specLines]
    ELSE IF spectra[i].marker \notin gramLines
    THEN [exc |-> "ValueError", axSpectrogramLines |-> gramLines,
          axSpectrumLines |-> specLines]
    ELSE IF spectra[i].line \notin specLines
    THEN [exc |-> "ValueError",
          axSpectrogramLines |-> gramLines \ {spectra[i].marker},
          axSpectrumLines |-> specLines]
    ELSE clear_spectra_loop(i + 1, gramLines \ {spectra[i].marker},
                            specLines \ {spectra[i].line})

clear_spectra ==
    LET r == clear_spectra_loop(1, axSpectrogramLines, axSpectrumLines)
    IN  [exc |-> r.exc,
         axSpectrogramLines |-> r.axSpectrogramLines,
         axSpectrumLines |-> r.axSpectrumLines,
         spectra |-> IF r.exc = NoExc THEN <<>> ELSE spectra]

----------------------------------------------------------------------------
(* SpectrogramWidget.clear_followers()                                     *)

\* x.line raises AttributeError when follow() never set the attribute
RECURSIVE clear_followers_loop(_, _)
clear_followers_loop(i, gramLines) ==
    IF i > Len(peak_followers)
    THEN [exc |-> NoExc, axSpectrogramLines |-> gramLines]
    ELSE IF peak_followers[i].line = NoLine
    THEN [exc |-> "AttributeError", axSpectrogramLines |-> gramLines]
    ELSE IF peak_followers[i].line \notin gramLines
    THEN [exc |-> "ValueError", axSpectrogramLines |-> gramLines]
    ELSE clear_followers_loop(i + 1, gramLines \ {peak_followers[i].line})

clear_followers ==
    LET r == clear_followers_loop(1, axSpectrogramLines)
    IN  [exc |-> r.exc,
         axSpectrogramLines |-> r.axSpectrogramLines,
         peak_followers |-> IF r.exc = NoExc THEN <<>> ELSE peak_followers]

----------------------------------------------------------------------------
(* SpectrogramWidget.gauss_out(n)                                          *)
(* fault = "raises": the frame lookup, the indexing of the spectrogram by  *)
(* the follower's indices or the Gaussian fit raises.                      *)

\* The guard off by one: n = len(self.peak_followers) passes it
gauss_out_guard_off_by_one(n) == n > Len(peak_followers)

\* if n >= len(self.peak_followers): return 0
gauss_out_guard(n) == n >= Len(peak_followers)

\* The list after "if not hasattr ... else: while len(...) < ...: append(None)"
RECURSIVE PadNone(_, _)
PadNone(list, len) ==
    IF Len(list) < len THEN PadNone(Append(list, Nothing), len) ELSE list

gauss_out(n, fault) ==
    LET same == [exc |-> NoExc, gauss_outs |-> gauss_outs, figures |-> figures]
    IN  IF gauss_out_guard(n)
        THEN same
        ELSE IF n + 1 > Len(peak_followers)
        THEN [same EXCEPT !.exc = "IndexError"]   \* self.peak_followers[n]
        ELSE IF fault = "raises"
        THEN [same EXCEPT !.exc = "Exception"]
        ELSE LET padded == IF gauss_outs.has
                           THEN PadNone(gauss_outs.list, Len(peak_followers))
                           ELSE [i \in 1..Len(peak_followers) |-> Nothing]
                 out == "dict"
             IN  [exc |-> NoExc,
                  gauss_outs |-> [has |-> TRUE,
                                  list |-> [padded EXCEPT ![n + 1] = Some(out)]],
                  figures |-> figures + 1]

----------------------------------------------------------------------------
(* SpectrogramWidget.analyze_roi()                                         *)

\* analyze_region is neither defined nor imported in the module: the first
\* iteration of the loop raises NameError
analyze_roi == IF roi # <<>> THEN "NameError" ELSE NoExc

----------------------------------------------------------------------------
(* SpectrogramWidget.handle_key(event)                                     *)

\* char in "0123456789": a substring test, TypeError when char is None
InDigitString(char) == char \in {"0", "1", "2", "3", "4", "5", "6", "7", "8", "9"}

handle_key(char, fault) ==
    /\ UNCHANGED sliderVars
    /\ UNCHANGED baselineVars
    /\ lastOp' = [op |-> "handle_key", arg |-> char]
    /\ UNCHANGED <<sg, peak_followers, gauss, spectra_in_db, threshold, image,
                   clicker, color_bounds, roi>>
    /\ IF char = "x"
       THEN LET r == clear_spectra
            IN  /\ raised' = r.exc
                /\ spectra' = r.spectra
                /\ axSpectrogramLines' = r.axSpectrogramLines
                /\ axSpectrumLines' = r.axSpectrumLines
                /\ UNCHANGED <<selecting, marquee_active, gauss_outs, figures>>
       ELSE IF char \in {"m", "M"}
       THEN /\ selecting' = ~selecting
            /\ marquee_active' = ~selecting
            /\ raised' = NoExc
            /\ UNCHANGED <<spectra, axSpectrogramLines, axSpectrumLines,
                           gauss_outs, figures>>
       ELSE IF char = None
       THEN /\ raised' = "TypeError"
            /\ UNCHANGED <<spectra, axSpectrogramLines, axSpectrumLines,
                           selecting, marquee_active, gauss_outs, figures>>
       ELSE IF InDigitString(char)
       THEN LET r == gauss_out(int(char), fault)
            IN  /\ raised' = r.exc
                /\ gauss_outs' = r.gauss_outs
                /\ figures' = r.figures
                /\ UNCHANGED <<spectra, axSpectrogramLines, axSpectrumLines,
                               selecting, marquee_active>>
       ELSE IF char \in {"a", "A"} /\ roi # <<>>
       THEN /\ raised' = analyze_roi
            /\ UNCHANGED <<spectra, axSpectrogramLines, axSpectrumLines,
                           selecting, marquee_active, gauss_outs, figures>>
       ELSE /\ raised' = NoExc
            /\ UNCHANGED <<spectra, axSpectrogramLines, axSpectrumLines,
                           selecting, marquee_active, gauss_outs, figures>>

Key ==
    \E char \in Keys :
      \E fault \in (IF InDigitString(char) /\ int(char) < Len(peak_followers)
                    THEN {"ok", "raises"} ELSE {"ok"}) :
        /\ (InDigitString(char) /\ int(char) < Len(peak_followers)
              /\ fault = "ok") => figures < MaxFigures
        /\ handle_key(char, fault)

----------------------------------------------------------------------------
(* The two buttons                                                         *)

ClearSpectraButton ==
    LET r == clear_spectra
    IN  /\ raised' = r.exc
        /\ spectra' = r.spectra
        /\ axSpectrogramLines' = r.axSpectrogramLines
        /\ axSpectrumLines' = r.axSpectrumLines
        /\ UNCHANGED sliderVars
        /\ UNCHANGED baselineVars
        /\ lastOp' = [op |-> "clear_spectra",
                      arg |-> IF spectra = <<>> THEN "empty" ELSE "nonempty"]
        /\ UNCHANGED <<sg, peak_followers, gauss_outs, gauss, spectra_in_db,
                       selecting, marquee_active, roi, threshold, image,
                       clicker, color_bounds, figures>>

ClearFollowersButton ==
    LET r == clear_followers
    IN  /\ raised' = r.exc
        /\ peak_followers' = r.peak_followers
        /\ axSpectrogramLines' = r.axSpectrogramLines
        /\ UNCHANGED sliderVars
        /\ UNCHANGED baselineVars
        /\ lastOp' = [op |-> "clear_followers",
                      arg |-> IF peak_followers = <<>> THEN "empty"
                              ELSE "nonempty"]
        /\ UNCHANGED <<sg, gauss_outs, gauss, spectra, spectra_in_db,
                       axSpectrumLines, selecting, marquee_active, roi,
                       threshold, image, clicker, color_bounds, figures>>

----------------------------------------------------------------------------
(* SpectrogramWidget.RSelect(eclick, erelease)                             *)

RSelect ==
    \E eclick \in Corners : \E erelease \in Corners \ {eclick} :
      LET t0 == eclick[1]
          t1 == erelease[1]
          v0 == eclick[2]
          v1 == erelease[2]
      IN
        /\ marquee_active
        /\ Len(roi) < MaxRoi
        /\ roi' = Append(roi,
                   [time |-> IF t1 < t0 THEN <<t1, t0>> ELSE <<t0, t1>>,
                    velocity |-> IF v1 < v0 THEN <<v1, v0>> ELSE <<v0, v1>>])
        /\ raised' = NoExc
        /\ UNCHANGED sliderVars
        /\ UNCHANGED baselineVars
        /\ lastOp' = [op |-> "RSelect", arg |-> "marquee"]
        /\ UNCHANGED <<sg, peak_followers, gauss_outs, gauss, spectra,
                       spectra_in_db, axSpectrogramLines, axSpectrumLines,
                       selecting, marquee_active, threshold, image, clicker,
                       color_bounds, figures>>

----------------------------------------------------------------------------
(* SpectrogramWidget.update_baselines(method)                              *)
(* found: how many of the peaks that baselines_by_squash returns have a    *)
(* height above 0.1.  fault = "raises": baselines_by_squash raises.        *)

\* The options of the 'Baselines' dropdown
BaselineMethods == {"_None_", "Squash", "FFT"}

\* The baseline lines on the spectrum axes
BaselineLinesOn(lines) == {l \in lines : l.kind = "baseline"}

\* for v in blines: one plot on axSpectrum and one entry of self.baselines
\* for each of the peaks n..found.  plot() returns the list of the lines it
\* made, and the entry keeps that list.
RECURSIVE update_baselines_plot(_, _, _, _)
update_baselines_plot(n, found, lines, recorded) ==
    IF n > found
    THEN [axSpectrumLines |-> lines, baselines |-> recorded]
    ELSE LET l == [kind |-> "baseline",
                   id |-> FreshId({x.id : x \in BaselineLinesOn(lines)})]
         IN  update_baselines_plot(
                 n + 1, found, lines \cup {l},
                 Append(recorded, [v |-> n, line |-> <<l>>]))

\* for b in self.baselines: self.axSpectrum.lines.remove(b['line']), over
\* the entries from i on; list.remove raises ValueError for an absent item
RECURSIVE update_baselines_remove(_, _, _)
update_baselines_remove(i, recorded, lines) ==
    IF i > Len(recorded)
    THEN [exc |-> NoExc, axSpectrumLines |-> lines]
    ELSE IF recorded[i].line \notin lines
    THEN [exc |-> "ValueError", axSpectrumLines |-> lines]
    ELSE update_baselines_remove(i + 1, recorded, lines \ {recorded[i].line})

update_baselines(method, found, fault) ==
    LET emptied == <<>>        \* self.baselines = [], before anything else
    IN  IF method = "Squash" /\ fault = "raises"
        THEN [exc |-> "Exception", baselines |-> emptied,
              axSpectrumLines |-> axSpectrumLines]
        ELSE IF method # "Squash" \/ found = 0
        THEN LET r == update_baselines_remove(1, emptied, axSpectrumLines)
             IN  [exc |-> r.exc, baselines |-> <<>>,
                  axSpectrumLines |-> r.axSpectrumLines]
        ELSE LET r == update_baselines_plot(1, found, axSpectrumLines, emptied)
             IN  [exc |-> NoExc, baselines |-> r.baselines,
                  axSpectrumLines |-> r.axSpectrumLines]

\* The user picks another entry of the 'Baselines' dropdown
UpdateBaselines ==
    \E method \in BaselineMethods \ {baselines_method} :
      \E found \in (IF method = "Squash" THEN 0..MaxBaselines ELSE {0}) :
        \E fault \in (IF method = "Squash" THEN {"ok", "raises"} ELSE {"ok"}) :
          /\ Cardinality(BaselineLinesOn(axSpectrumLines)) + found
                <= MaxBaselineLines
          /\ LET r == update_baselines(method, found, fault)
             IN  /\ baselines' = r.baselines
                 /\ axSpectrumLines' = r.axSpectrumLines
                 /\ raised' = r.exc
          /\ baselines_method' = method
          /\ lastOp' = [op |-> "update_baselines", arg |-> method]
          /\ UNCHANGED sliderVars
          /\ UNCHANGED <<sg, peak_followers, gauss_outs, gauss, spectra,
                         spectra_in_db, axSpectrogramLines, selecting,
                         marquee_active, roi, threshold, image, clicker,
                         color_bounds, figures>>

----------------------------------------------------------------------------
(* The base spectrogram and what is derived from it                        *)

\* sg.intensity.min() and sg.intensity.max() of the spectrogram computed
\* with parameters s
IntensityMin(s) == [stat |-> "min", of |-> s]
IntensityMax(s) == [stat |-> "max", of |-> s]

\* self.spectrogram.transform(self.spectrogram.histogram_levels[n])
HistogramThreshold(s, n) == [level |-> n, of |-> s]

\* SpectrogramWidget.display_spectrogram(): the image shows the slice of
\* the spectrogram s, floored at the threshold th if there is one
display_spectrogram(s, th) == Some([of |-> s, threshold |-> th])

\* SpectrogramWidget.update_spectrogram(): the bounds of the colour slider
\* are assigned, then the image is redrawn
update_spectrogram(s) ==
    /\ color_bounds' = <<IntensityMin(s), IntensityMax(s)>>
    /\ image' = display_spectrogram(s, threshold)

\* SpectrogramWidget.overhaul(**kwargs)
overhaul(kwargs) ==
    /\ sg' = kwargs
    /\ update_spectrogram(sg')

\* The FFT-size slider: overhaul(points_per_spectrum=2 ** x['new'])
OverhaulSpectrumSize ==
    \E n \in SpectrumSizes \ {sg.points_per_spectrum} :
        /\ overhaul([sg EXCEPT !.points_per_spectrum = n])
        /\ raised' = NoExc
        /\ UNCHANGED sliderVars
        /\ UNCHANGED baselineVars
        /\ lastOp' = [op |-> "overhaul", arg |-> "points_per_spectrum"]
        /\ UNCHANGED <<peak_followers, gauss_outs, gauss, spectra,
                       spectra_in_db, axSpectrogramLines, axSpectrumLines,
                       selecting, marquee_active, roi, threshold, clicker,
                       figures>>

\* The overlap slider: overhaul(overlap=x['new'] * 0.01)
OverhaulOverlap ==
    \E o \in Overlaps \ {sg.overlap} :
        /\ overhaul([sg EXCEPT !.overlap = o])
        /\ raised' = NoExc
        /\ UNCHANGED sliderVars
        /\ UNCHANGED baselineVars
        /\ lastOp' = [op |-> "overhaul", arg |-> "overlap"]
        /\ UNCHANGED <<peak_followers, gauss_outs, gauss, spectra,
                       spectra_in_db, axSpectrogramLines, axSpectrumLines,
                       selecting, marquee_active, roi, threshold, clicker,
                       figures>>

\* The time-range slider: do_update(what)
do_update ==
    /\ update_spectrogram(sg)
    /\ raised' = NoExc
    /\ UNCHANGED sliderVars
    /\ UNCHANGED baselineVars
    /\ lastOp' = [op |-> "do_update", arg |-> "t_range"]
    /\ UNCHANGED <<sg, peak_followers, gauss_outs, gauss, spectra,
                   spectra_in_db, axSpectrogramLines, axSpectrumLines,
                   selecting, marquee_active, roi, threshold, clicker,
                   figures>>

\* The noise-floor slider: update_threshold(x)
update_threshold(x) ==
    /\ threshold' = IF x = 0 THEN Nothing ELSE Some(HistogramThreshold(sg, x))
    /\ image' = display_spectrogram(sg, threshold')
    /\ raised' = NoExc
    /\ UNCHANGED sliderVars
    /\ UNCHANGED baselineVars
    /\ lastOp' = [op |-> "update_threshold", arg |-> "threshold"]
    /\ UNCHANGED <<sg, peak_followers, gauss_outs, gauss, spectra,
                   spectra_in_db, axSpectrogramLines, axSpectrumLines,
                   selecting, marquee_active, roi, clicker, color_bounds,
                   figures>>

UpdateThreshold == \E x \in ThresholdValues : update_threshold(x)

----------------------------------------------------------------------------
(* SpectrogramWidget.__init__ and the event loop                           *)

\* The widget after SpectrogramWidget.__init__
WidgetInit ==
    /\ sg = [points_per_spectrum |-> 13, overlap |-> 0]
    /\ peak_followers = <<>>
    /\ gauss_outs = [has |-> FALSE, list |-> <<>>]
    /\ gauss = Nothing
    /\ spectra = <<>>
    /\ spectra_in_db = TRUE
    /\ axSpectrogramLines = {}
    /\ axSpectrumLines = {}
    /\ selecting = FALSE
    /\ marquee_active = TRUE
    /\ roi = <<>>
    /\ threshold = Nothing
    /\ image = display_spectrogram(sg, Nothing)
    /\ clicker = "Spectrum (dB)"
    /\ color_bounds = <<IntensityMin(sg), IntensityMax(sg)>>
    /\ figures = 0
    /\ baselines = <<>>
    /\ baselines_method = "_None_"
    /\ raised = NoExc

Init ==
    /\ WidgetInit
    /\ lastOp = [op |-> "__init__", arg |-> ""]
    /\ vs = NoSlider
    /\ ps = NoSlider
    /\ ctor = NoSlider
    /\ returned = <<>>

\* The events that act on the artists of the figure: clicks, keys, the two
\* buttons, the 'Click' dropdown and the marquee.  None of them reads or
\* writes the parameters of the spectrogram, the threshold or the image.
Next ==
    \/ Click
    \/ SetClicker
    \/ Key
    \/ ClearSpectraButton
    \/ ClearFollowersButton
    \/ RSelect

Spec == Init /\ [][Next]_vars

\* The events that recompute or redraw the spectrogram, together with the
\* clicks that create what is derived from it.
NextOverhaul ==
    \/ OverhaulSpectrumSize
    \/ OverhaulOverlap
    \/ do_update
    \/ UpdateThreshold
    \/ Click
    \/ SetClicker
    \/ ClearFollowersButton

SpecOverhaul == Init /\ [][NextOverhaul]_vars

\* The 'Baselines' dropdown, together with the clicks and the button that
\* draw on and clear the spectrum axes.
NextBaselines ==
    \/ UpdateBaselines
    \/ Click
    \/ ClearSpectraButton

SpecBaselines == Init /\ [][NextBaselines]_vars

----------------------------------------------------------------------------
(* Python floats.  A Python float is an IEEE-754 double: a sign, a 53-bit  *)
(* significand and a binary exponent, and every arithmetic operation       *)
(* returns the exact result rounded to the nearest double, ties to even.   *)
(* The significands do not fit TLC's integers, so naturals are kept as     *)
(* little-endian sequences of limbs below LimbBase.  Overflow to infinity  *)
(* and subnormal results do not occur for the magnitudes used here and are *)
(* not modelled.                                                           *)

\* Bits of the significand of a double
MantBits == 53

LimbBits == 15
LimbBase == 2 ^ LimbBits

Limb(a, i) == IF i <= Len(a) THEN a[i] ELSE 0

RECURSIVE BNorm(_)
BNorm(a) ==
    IF a = <<>> THEN <<>>
    ELSE IF a[Len(a)] = 0 THEN BNorm(SubSeq(a, 1, Len(a) - 1))
    ELSE a

RECURSIVE BFromNat(_)
BFromNat(n) ==
    IF n = 0 THEN <<>> ELSE <<n % LimbBase>> \o BFromNat(n \div LimbBase)

RECURSIVE BAddFrom(_, _, _, _)
BAddFrom(a, b, i, c) ==
    IF i > Len(a) /\ i > Len(b)
    THEN IF c = 0 THEN <<>> ELSE <<c>>
    ELSE LET s == Limb(a, i) + Limb(b, i) + c
         IN  <<s % LimbBase>> \o BAddFrom(a, b, i + 1, s \div LimbBase)

BAdd(a, b) == BAddFrom(a, b, 1, 0)

\* a - b for a >= b
RECURSIVE BSubFrom(_, _, _, _)
BSubFrom(a, b, i, c) ==
    IF i > Len(a)
    THEN <<>>
    ELSE LET d == Limb(a, i) - Limb(b, i) - c
         IN  IF d < 0
             THEN <<d + LimbBase>> \o BSubFrom(a, b, i + 1, 1)
             ELSE <<d>> \o BSubFrom(a, b, i + 1, 0)

BSub(a, b) == BNorm(BSubFrom(a, b, 1, 0))

\* -1, 0 or 1 as a < b, a = b or a > b
RECURSIVE BCmpAt(_, _, _)
BCmpAt(a, b, i) ==
    IF i = 0 THEN 0
    ELSE IF a[i] < b[i] THEN -1
    ELSE IF a[i] > b[i] THEN 1
    ELSE BCmpAt(a, b, i - 1)

BCmp(a, b) ==
    IF Len(a) < Len(b) THEN -1
    ELSE IF Len(a) > Len(b) THEN 1
    ELSE BCmpAt(a, b, Len(a))

\* a * k for 0 <= k < LimbBase
RECURSIVE BMulSmallFrom(_, _, _, _)
BMulSmallFrom(a, k, i, c) ==
    IF i > Len(a)
    THEN IF c = 0 THEN <<>> ELSE <<c>>
    ELSE LET p == a[i] * k + c
         IN  <<p % LimbBase>> \o BMulSmallFrom(a, k, i + 1, p \div LimbBase)

BMulSmall(a, k) == IF k = 0 THEN <<>> ELSE BMulSmallFrom(a, k, 1, 0)

RECURSIVE BMulFrom(_, _, _)
BMulFrom(a, b, j) ==
    IF j > Len(b) THEN <<>>
    ELSE BAdd(BMulSmall(a, b[j]), <<0>> \o BMulFrom(a, b, j + 1))

BMul(a, b) == BNorm(BMulFrom(a, b, 1))

\* a * 2^n
BShl(a, n) ==
    IF a = <<>> THEN <<>>
    ELSE [i \in 1..(n \div LimbBits) |-> 0]
            \o BMulSmall(a, 2 ^ (n % LimbBits))

\* floor(a / 2^n)
BShr(a, n) ==
    LET k == n \div LimbBits
        r == n % LimbBits
    IN  IF k >= Len(a) THEN <<>>
        ELSE BNorm([i \in 1..(Len(a) - k) |->
                 (a[i + k] \div (2 ^ r))
                   + (Limb(a, i + k + 1) % (2 ^ r)) * (2 ^ (LimbBits - r))])

RECURSIVE BitLenSmall(_)
BitLenSmall(n) == IF n = 0 THEN 0 ELSE 1 + BitLenSmall(n \div 2)

BBitLen(a) ==
    IF a = <<>> THEN 0
    ELSE LimbBits * (Len(a) - 1) + BitLenSmall(a[Len(a)])

BIsOdd(a) == a # <<>> /\ a[1] % 2 = 1

\* Bit k of a, bit 0 the least significant
BBit(a, k) == (Limb(a, k \div LimbBits + 1) \div (2 ^ (k % LimbBits))) % 2

\* The quotient digit of r by b, for r < b * LimbBase and b with its top
\* limb at least LimbBase / 2: an estimate that is never too small,
\* lowered until b * qhat fits: <<digit, remainder>>
RECURSIVE BDivModDigit(_, _, _)
BDivModDigit(r, b, qhat) ==
    LET p == BMulSmall(b, qhat)
    IN  IF BCmp(p, r) > 0
        THEN BDivModDigit(r, b, qhat - 1)
        ELSE <<qhat, BSub(r, p)>>

BDivModEstimate(r, b) ==
    LET n == Len(b)
        est == (Limb(r, n + 1) * LimbBase + Limb(r, n)) \div b[n]
    IN  IF est >= LimbBase THEN LimbBase - 1 ELSE est

\* Long division, one limb of a at a time from limb i down:
\* <<quotient, remainder>>
RECURSIVE BDivModLimbs(_, _, _, _, _)
BDivModLimbs(a, b, i, q, r) ==
    IF i = 0 THEN <<q, r>>
    ELSE LET r2 == BNorm(<<a[i]>> \o r)
             s == BDivModDigit(r2, b, BDivModEstimate(r2, b))
         IN  BDivModLimbs(a, b, i - 1, BNorm(<<s[1]>> \o q), s[2])

\* <<floor(a / b), a mod b>> for b # 0, both scaled first so that the top
\* limb of b is at least LimbBase / 2
BDivMod(a, b) ==
    LET sh == LimbBits - BitLenSmall(b[Len(b)])
        an == BShl(a, sh)
        qr == BDivModLimbs(an, BShl(b, sh), Len(an), <<>>, <<>>)
    IN  <<qr[1], BShr(qr[2], sh)>>

\* An exact binary number: (-1)^s * m * 2^e
Ex(s, m, e) == [s |-> s, m |-> m, e |-> e]

ExZero == Ex(0, <<>>, 0)

ExNeg(x) == IF x.m = <<>> THEN x ELSE [x EXCEPT !.s = 1 - x.s]

ExAbs(x) == [x EXCEPT !.s = 0]

ExMul(x, y) ==
    IF x.m = <<>> \/ y.m = <<>> THEN ExZero
    ELSE Ex((x.s + y.s) % 2, BMul(x.m, y.m), x.e + y.e)

ExAdd(x, y) ==
    IF x.m = <<>> THEN y
    ELSE IF y.m = <<>> THEN x
    ELSE LET e == IF x.e < y.e THEN x.e ELSE y.e
             xm == BShl(x.m, x.e - e)
             ym == BShl(y.m, y.e - e)
             c == BCmp(xm, ym)
         IN  IF x.s = y.s THEN Ex(x.s, BAdd(xm, ym), e)
             ELSE IF c = 0 THEN ExZero
             ELSE IF c > 0 THEN Ex(x.s, BSub(xm, ym), e)
             ELSE Ex(y.s, BSub(ym, xm), e)

ExSub(x, y) == ExAdd(x, ExNeg(y))

\* x <= y
ExLe(x, y) == LET d == ExSub(x, y) IN d.m = <<>> \/ d.s = 1

\* The double nearest to an exact number, ties to even
Round(x) ==
    IF x.m = <<>> THEN ExZero
    ELSE LET len == BBitLen(x.m)
         IN  IF len <= MantBits
             THEN Ex(x.s, BShl(x.m, MantBits - len), x.e - (MantBits - len))
             ELSE LET sh == len - MantBits
                      q == BShr(x.m, sh)
                      rem == BSub(x.m, BShl(q, sh))
                      c == BCmp(rem, BShl(<<1>>, sh - 1))
                      up == c > 0 \/ (c = 0 /\ BIsOdd(q))
                      q2 == IF up THEN BAdd(q, <<1>>) ELSE q
                  IN  IF BBitLen(q2) > MantBits
                      THEN Ex(x.s, BShr(q2, 1), x.e + sh + 1)
                      ELSE Ex(x.s, q2, x.e + sh)

\* float(n) for an int n
FromInt(n) == Round(Ex(IF n < 0 THEN 1 ELSE 0, BFromNat(IF n < 0 THEN -n ELSE n), 0))

FAdd(x, y) == Round(ExAdd(x, y))
FSub(x, y) == Round(ExSub(x, y))
FMul(x, y) == Round(ExMul(x, y))

\* x / y for y # 0: the quotient to 56 bits and more, with a sticky bit for
\* a remainder, then rounded
FDiv(x, y) ==
    IF x.m = <<>> THEN ExZero
    ELSE LET qr == BDivMod(BShl(x.m, MantBits + 3), y.m)
             sticky == IF qr[2] = <<>> THEN <<>> ELSE <<1>>
         IN  Round(Ex((x.s + y.s) % 2,
                      BAdd(BMulSmall(qr[1], 2), sticky),
                      x.e - y.e - (MantBits + 3) - 1))

\* The value of a decimal literal n / d with exact n and d
Decimal(n, d) == FDiv(FromInt(n), FromInt(d))

----------------------------------------------------------------------------
(* class ValueSlider(widgets.FloatRangeSlider)                             *)

\* The literal 0.01
F001 == Decimal(1, 100)

\* The attributes a slider is followed by
SliderOf(min, max, value, multiplier, ymin, ymax) ==
    [min |-> min, max |-> max, value |-> value, multiplier |-> multiplier,
     ymin |-> ymin, ymax |-> ymax]

\* The constructor with value left in true units
ValueSlider_unscaled_value(initial_value, yrange, multiplier) ==
    SliderOf(FMul(yrange[1], multiplier),
             FMul(yrange[2], multiplier),
             [i \in 1..2 |->
                FAdd(yrange[1],
                     FMul(FMul(F001, FromInt(initial_value[i])),
                          FSub(yrange[2], yrange[1])))],
             multiplier,
             FMul(yrange[1], multiplier),
             FMul(yrange[2], multiplier))

\* ValueSlider.__init__(description, initial_value, yrange, multiplier).
\* FloatRangeSlider is taken to store min, max and value as they are passed.
ValueSlider(initial_value, yrange, multiplier) ==
    SliderOf(FMul(yrange[1], multiplier),
             FMul(yrange[2], multiplier),
             [i \in 1..2 |->
                FMul(multiplier,
                     FAdd(yrange[1],
                          FMul(FMul(F001, FromInt(initial_value[i])),
                               FSub(yrange[2], yrange[1]))))],
             multiplier,
             FMul(yrange[1], multiplier),
             FMul(yrange[2], multiplier))

\* ValueSlider.range (getter): a float division, ZeroDivisionError by zero
ValueSlider_range(s) ==
    IF s.multiplier.m = <<>>
    THEN [exc |-> "ZeroDivisionError", val |-> <<>>]
    ELSE [exc |-> NoExc,
          val |-> [i \in 1..2 |-> FDiv(s.value[i], s.multiplier)]]

\* ValueSlider.range (setter)
ValueSlider_set_range(s, val) == [s EXCEPT !.ymin = val[1], !.ymax = val[2]]

\* Constructor arguments: percentages, true ranges and multipliers.  The
\* widget builds its sliders with (0, 25), (0, 50) and (40, 70), with the
\* multipliers 1e6, 1e-3 and 1, and with a colour range (imax - 200, imax).
InitialValues == {<<0, 25>>, <<0, 50>>, <<40, 70>>, <<0, 100>>}
YRanges == {<<FromInt(0), Decimal(5, 100000)>>,
            <<FromInt(0), FromInt(7)>>,
            <<FromInt(-130), FromInt(70)>>}
Multipliers == {FromInt(1), FromInt(1000000), Decimal(1, 1000), FromInt(0)}

\* Values assigned through the setters
SetterValues == {FromInt(-140), FromInt(70)}

\* The keys of self.controls and the class of each control
ControlClass ==
    [spectrum_size |-> "IntSlider", overlap |-> "FloatSlider",
     t_range |-> "ValueSlider", velocity_range |-> "ValueSlider",
     intensity_range |-> "ValueSlider", threshold |-> "FloatSlider",
     color_map |-> "Dropdown", clicker |-> "Dropdown",
     marquee |-> "RectangleSelector", clear_spectra |-> "Button",
     clear_followers |-> "Button", baselines |-> "Dropdown",
     raw_signal |-> "Checkbox"]

\* SpectrogramWidget.range(var), where s is the state of the control when
\* it is a ValueSlider.  Only ValueSlider (and PercentSlider) define range;
\* on any other control the attribute lookup raises AttributeError.
range(var, s) ==
    IF var \in DOMAIN ControlClass
    THEN IF ControlClass[var] = "ValueSlider"
         THEN ValueSlider_range(s)
         ELSE [exc |-> "AttributeError", val |-> <<>>]
    ELSE [exc |-> NoExc, val |-> <<>>]

\* The names range() is called with
RangeNames == DOMAIN ControlClass \cup {"no_such_control"}

WidgetUnchanged ==
    UNCHANGED <<sg, peak_followers, gauss_outs, gauss, spectra, spectra_in_db,
                axSpectrogramLines, axSpectrumLines, selecting,
                marquee_active, roi, threshold, image, clicker, color_bounds,
                figures, baselines, baselines_method>>

InitValueSlider ==
    /\ WidgetInit
    /\ ctor \in [initial_value : InitialValues, yrange : YRanges,
                 multiplier : Multipliers]
    /\ vs = ValueSlider(ctor.initial_value, ctor.yrange, ctor.multiplier)
    /\ ps = NoSlider
    /\ returned = <<>>
    /\ lastOp = [op |-> "ValueSlider.__init__", arg |-> ""]

\* The user drags the handles: the widget keeps value within [min, max]
ValueSliderMove ==
    \E lo \in {vs.min, vs.max}, hi \in {vs.max} :
        /\ vs' = [vs EXCEPT !.value = <<lo, hi>>]
        /\ ctor' = NoSlider
        /\ raised' = NoExc
        /\ lastOp' = [op |-> "ValueSlider.value", arg |-> ""]
        /\ returned' = <<>>
        /\ UNCHANGED ps
        /\ WidgetUnchanged

\* slider.range = val, as update_spectrogram does for the colour slider
ValueSliderSetRange ==
    \E lo \in SetterValues, hi \in SetterValues :
        /\ vs' = ValueSlider_set_range(vs, <<lo, hi>>)
        /\ raised' = NoExc
        /\ lastOp' = [op |-> "ValueSlider.range.setter", arg |-> ""]
        /\ returned' = <<>>
        /\ UNCHANGED <<ps, ctor>>
        /\ WidgetUnchanged

\* slider.ymin = v
ValueSliderSetYmin ==
    \E v \in SetterValues :
        /\ vs' = [vs EXCEPT !.ymin = v]
        /\ raised' = NoExc
        /\ lastOp' = [op |-> "ValueSlider.ymin.setter", arg |-> ""]
        /\ returned' = <<>>
        /\ UNCHANGED <<ps, ctor>>
        /\ WidgetUnchanged

\* slider.ymax = v
ValueSliderSetYmax ==
    \E v \in SetterValues :
        /\ vs' = [vs EXCEPT !.ymax = v]
        /\ raised' = NoExc
        /\ lastOp' = [op |-> "ValueSlider.ymax.setter", arg |-> ""]
        /\ returned' = <<>>
        /\ UNCHANGED <<ps, ctor>>
        /\ WidgetUnchanged

\* widget.range(var)
WidgetRange ==
    \E var \in RangeNames :
        LET r == range(var, vs)
        IN  /\ returned' = r.val
            /\ raised' = r.exc
            /\ lastOp' = [op |-> "range", arg |-> var]
            /\ UNCHANGED <<vs, ps, ctor>>
            /\ WidgetUnchanged

\* slider.range is read
ValueSliderGetRange ==
    LET r == ValueSlider_range(vs)
    IN  /\ returned' = r.val
        /\ raised' = r.exc
        /\ lastOp' = [op |-> "ValueSlider.range", arg |-> ""]
        /\ UNCHANGED <<vs, ps, ctor>>
        /\ WidgetUnchanged

\* A ValueSlider on its own: construction, the handles, the setters and
\* the range getter
NextValueSlider ==
    \/ ValueSliderMove
    \/ ValueSliderSetRange
    \/ ValueSliderSetYmin
    \/ ValueSliderSetYmax
    \/ ValueSliderGetRange

SpecValueSlider == InitValueSlider /\ [][NextValueSlider]_vars

\* SpectrogramWidget.range over the controls of the widget, the followed
\* slider standing for each of its three ValueSliders
NextRange ==
    \/ WidgetRange
    \/ ValueSliderMove

\* The widget builds none of its sliders with a zero multiplier
InitRange ==
    /\ InitValueSlider
    /\ ctor.multiplier.m # <<>>

SpecRange == InitRange /\ [][NextRange]_vars

----------------------------------------------------------------------------
(* class PercentSlider(widgets.IntRangeSlider)                             *)

\* PercentSlider.__init__(description, initial_value, yrange)
PercentSlider(initial_value, yrange) ==
    [min |-> 0, max |-> 100, value |-> initial_value,
     ymin |-> yrange[1], ymax |-> yrange[2]]

\* The getter with dy taken as the whole of ymax - ymin
PercentSlider_range_no_percent(s) ==
    LET dy == FSub(s.ymax, s.ymin)
    IN  [i \in 1..2 |-> FAdd(FMul(FromInt(s.value[i]), dy), s.ymin)]

\* PercentSlider.range (getter)
PercentSlider_range(s) ==
    LET dy == FMul(F001, FSub(s.ymax, s.ymin))
    IN  [i \in 1..2 |-> FAdd(FMul(FromInt(s.value[i]), dy), s.ymin)]

\* PercentSlider.range (setter)
PercentSlider_set_range(s, val) == [s EXCEPT !.ymin = val[1], !.ymax = val[2]]

\* Positions of the two handles: integer percentages, lower first
Percents == {0, 25, 70, 100}
PercentPairs == {v \in Percents \X Percents : v[1] <= v[2]}

InitPercentSlider ==
    /\ WidgetInit
    /\ ctor \in [initial_value : PercentPairs, yrange : YRanges]
    /\ ps = PercentSlider(ctor.initial_value, ctor.yrange)
    /\ vs = NoSlider
    /\ returned = <<>>
    /\ lastOp = [op |-> "PercentSlider.__init__", arg |-> ""]

\* The user drags the handles
PercentSliderMove ==
    \E v \in PercentPairs :
        /\ ps' = [ps EXCEPT !.value = v]
        /\ ctor' = NoSlider
        /\ returned' = <<>>
        /\ raised' = NoExc
        /\ lastOp' = [op |-> "PercentSlider.value", arg |-> ""]
        /\ UNCHANGED vs
        /\ WidgetUnchanged

\* slider.range = val
PercentSliderSetRange ==
    \E lo \in SetterValues, hi \in SetterValues :
        /\ ps' = PercentSlider_set_range(ps, <<lo, hi>>)
        /\ returned' = <<>>
        /\ raised' = NoExc
        /\ lastOp' = [op |-> "PercentSlider.range.setter", arg |-> ""]
        /\ UNCHANGED <<vs, ctor>>
        /\ WidgetUnchanged

\* slider.ymin = v
PercentSliderSetYmin ==
    \E v \in SetterValues :
        /\ ps' = [ps EXCEPT !.ymin = v]
        /\ returned' = <<>>
        /\ raised' = NoExc
        /\ lastOp' = [op |-> "PercentSlider.ymin.setter", arg |-> ""]
        /\ UNCHANGED <<vs, ctor>>
        /\ WidgetUnchanged

\* slider.ymax = v
PercentSliderSetYmax ==
    \E v \in SetterValues :
        /\ ps' = [ps EXCEPT !.ymax = v]
        /\ returned' = <<>>
        /\ raised' = NoExc
        /\ lastOp' = [op |-> "PercentSlider.ymax.setter", arg |-> ""]
        /\ UNCHANGED <<vs, ctor>>
        /\ WidgetUnchanged

\* slider.range is read
PercentSliderGetRange ==
    /\ returned' = PercentSlider_range(ps)
    /\ raised' = NoExc
    /\ lastOp' = [op |-> "PercentSlider.range", arg |-> ""]
    /\ UNCHANGED <<vs, ps, ctor>>
    /\ WidgetUnchanged

\* A PercentSlider on its own
NextPercentSlider ==
    \/ PercentSliderMove
    \/ PercentSliderSetRange
    \/ PercentSliderSetYmin
    \/ PercentSliderSetYmax
    \/ PercentSliderGetRange

SpecPercentSlider == InitPercentSlider /\ [][NextPercentSlider]_vars

----------------------------------------------------------------------------
(* Properties of the event handlers                                        *)

KindsOn(lines) == {l.kind : l \in lines}

\* C1: handle_key returns without propagating an exception, for every key
\* and in every state of the widget.
C1_KeyNeverRaises ==
    lastOp.op = "handle_key" => raised = NoExc

\* C2: handle_click returns without propagating an exception, whatever the
\* pointer position, the 'Click' selection and the outcome of the spectrum,
\* follower or fitter computation.
C2_ClickNeverRaises ==
    lastOp.op = "handle_click" => raised = NoExc

\* A 'Peak' click whose tracking run raised: the follower is in the list
\* without a line, and the click returned normally
C2_SuppressedRun ==
    /\ lastOp.op = "handle_click"
    /\ clicker = "Peak"
    /\ ~selecting
    /\ raised = NoExc
    /\ peak_followers # <<>>
    /\ peak_followers[Len(peak_followers)].line = NoLine

\* C3: a digit key n with n >= len(peak_followers) raises nothing and leaves
\* peak_followers, gauss_outs, spectra, roi, selecting and the figures as
\* they were.
C3_OutOfBoundsDigit ==
    [][(/\ lastOp'.op = "handle_key"
        /\ lastOp'.arg \in Digits
        /\ int(lastOp'.arg) >= Len(peak_followers))
       => (/\ raised' = NoExc
           /\ UNCHANGED <<peak_followers, gauss_outs, spectra, roi,
                          selecting, figures>>)]_vars

\* Digit 9 was pressed with one follower in the list, or digit 0 with none
C3_DigitBeyondFollowers ==
    /\ lastOp.op = "handle_key"
    /\ raised = NoExc
    /\ \/ lastOp.arg = "9" /\ Len(peak_followers) = 1
       \/ lastOp.arg = "0" /\ Len(peak_followers) = 0 /\ spectra # <<>>

\* C4: clear_followers completes and leaves peak_followers empty, with no
\* follower line left on the spectrogram axes.
C4_ClearFollowersClears ==
    lastOp.op = "clear_followers" =>
        /\ raised = NoExc
        /\ peak_followers = <<>>
        /\ "follower" \notin KindsOn(axSpectrogramLines)

\* C5: clear_spectra, from the button or the 'x' key, completes and leaves
\* self.spectra empty, with no spectrum line on the spectrum axes and no
\* time marker on the spectrogram axes.
C5_ClearSpectraClears ==
    (lastOp.op = "clear_spectra" \/ lastOp = [op |-> "handle_key", arg |-> "x"])
      => /\ raised = NoExc
         /\ spectra = <<>>
         /\ "spectrum" \notin KindsOn(axSpectrumLines)
         /\ "marker" \notin KindsOn(axSpectrogramLines)

\* The button was pressed while spectra were displayed, and a follower's
\* line is still on the spectrogram axes
C5_ClearedSomeSpectra ==
    /\ lastOp = [op |-> "clear_spectra", arg |-> "nonempty"]
    /\ spectra = <<>>
    /\ "follower" \in KindsOn(axSpectrogramLines)

\* C7: after overhaul, the image, the bounds of the colour slider, the
\* noise-floor threshold and the index data of every peak follower all
\* belong to the spectrogram with the new parameters.
C7_OverhaulRecomputesAll ==
    lastOp.op = "overhaul" =>
        /\ image = display_spectrogram(sg, threshold)
        /\ color_bounds = <<IntensityMin(sg), IntensityMax(sg)>>
        /\ \A i \in 1..Len(threshold) : threshold[i].of = sg
        /\ \A i \in 1..Len(peak_followers) : peak_followers[i].sg = sg

----------------------------------------------------------------------------
(* Properties of the sliders and of SpectrogramWidget.range                *)

\* C6: SpectrogramWidget.range(var) never raises: it returns None when var
\* is not a key of self.controls and the range of the control otherwise,
\* for every control made by make_controls.
C6_RangeNeverRaises ==
    lastOp.op = "range" =>
        /\ raised = NoExc
        /\ lastOp.arg \notin DOMAIN ControlClass => returned = <<>>
        /\ lastOp.arg \in DOMAIN ControlClass => returned # <<>>

\* Exact arithmetic on the values of floats
ExInt(n) == Ex(0, BFromNat(n), 0)
ExMax(x, y) == IF ExLe(x, y) THEN y ELSE x

\* 100 * (a + p * (b - a) / 100) in exact arithmetic
Linear100(a, b, p) == ExAdd(ExMul(ExInt(100), a), ExMul(ExInt(p), ExSub(b, a)))

\* r is the float a + p * (b - a) / 100
IsLinear(r, a, b, p) ==
    r = FAdd(a, FDiv(FMul(FromInt(p), FSub(b, a)), FromInt(100)))

\* r is a + p * (b - a) / 100 to within 2^-48 * max(|a|, |b|)
NearLinear(r, a, b, p) ==
    ExLe(ExAbs(ExSub(ExMul(ExInt(100), r), Linear100(a, b, p))),
         ExMul(Ex(0, <<100>>, -48), ExMax(ExAbs(a), ExAbs(b))))

\* C8 as stated: for any multiplier m, range read after construction with
\* percentages (p0, p1) and yrange (a, b) is [a + p0*(b-a)/100,
\* a + p1*(b-a)/100], and range read at any time is value / m.
C8_ValueSliderReportsReal ==
    lastOp.op = "ValueSlider.range" =>
        /\ raised = NoExc
        /\ returned = [i \in 1..2 |-> FDiv(vs.value[i], vs.multiplier)]
        /\ ctor # NoSlider =>
              \A i \in 1..2 :
                  IsLinear(returned[i], ctor.yrange[1], ctor.yrange[2],
                           ctor.initial_value[i])

\* C8, amended: for a positive multiplier m, range read after construction
\* is within 2^-48 * max(|a|, |b|) of a + p*(b-a)/100 for each handle, and
\* range read at any time is the float quotient value / m.
C8_ValueSliderWithinRounding ==
    (/\ lastOp.op = "ValueSlider.range"
     /\ vs.multiplier.m # <<>>
     /\ vs.multiplier.s = 0) =>
        /\ raised = NoExc
        /\ returned = [i \in 1..2 |-> FDiv(vs.value[i], vs.multiplier)]
        /\ ctor # NoSlider =>
              \A i \in 1..2 :
                  NearLinear(returned[i], ctor.yrange[1], ctor.yrange[2],
                             ctor.initial_value[i])

\* range is read from a slider just built in microseconds over a range in
\* seconds, and the upper handle does not read back as the exact value
C8_ScaledRangeRead ==
    /\ lastOp.op = "ValueSlider.range"
    /\ ctor # NoSlider
    /\ ctor.multiplier = FromInt(1000000)
    /\ ctor.yrange[2] = Decimal(5, 100000)
    /\ raised = NoExc
    /\ returned # <<>>
    /\ ~IsLinear(returned[2], ctor.yrange[1], ctor.yrange[2],
                 ctor.initial_value[2])

\* C9: after construction, assignments to range, ymin and ymax and moves
\* of the handles, ymin and ymax are the widget's min and max, and a range
\* that is read lies within [ymin, ymax] / multiplier.
C9_YBoundsAreWidgetBounds ==
    vs # NoSlider =>
        /\ vs.ymin = vs.min
        /\ vs.ymax = vs.max
        /\ (lastOp.op = "ValueSlider.range" /\ raised = NoExc) =>
              \A i \in 1..2 :
                  /\ ExLe(FDiv(vs.ymin, vs.multiplier), returned[i])
                  /\ ExLe(returned[i], FDiv(vs.ymax, vs.multiplier))

\* C10 as stated: range is [ymin + lo*(ymax-ymin)/100,
\* ymin + hi*(ymax-ymin)/100] for the current handles (lo, hi) and the
\* current ymin and ymax, and the handles (0, 100) read back (ymin, ymax)
\* exactly.
C10_PercentSliderLinear ==
    lastOp.op = "PercentSlider.range" =>
        /\ \A i \in 1..2 :
              IsLinear(returned[i], ps.ymin, ps.ymax, ps.value[i])
        /\ ps.value = <<0, 100>> => returned = <<ps.ymin, ps.ymax>>

\* C10, amended: each entry of range is within 2^-48 * max(|ymin|, |ymax|)
\* of ymin + v*(ymax-ymin)/100 for its handle v, and a handle at 0 reads
\* back ymin exactly.
C10_PercentSliderWithinRounding ==
    lastOp.op = "PercentSlider.range" =>
        \A i \in 1..2 :
            /\ NearLinear(returned[i], ps.ymin, ps.ymax, ps.value[i])
            /\ ps.value[i] = 0 => returned[i] = ps.ymin

\* range is read with the handles at (0, 100) after an assignment through
\* a setter, and the upper entry is not ymax
C10_FullRangeRead ==
    /\ lastOp.op = "PercentSlider.range"
    /\ ctor = NoSlider
    /\ ps.value = <<0, 100>>
    /\ ps.ymin \in SetterValues
    /\ returned[1] = ps.ymin
    /\ returned[2] # ps.ymax

\* C11: after any selections in the 'Baselines' dropdown the baseline lines
\* on the spectrum axes are exactly the lines recorded in self.baselines,
\* and after '_None_' is selected self.baselines is empty and no baseline
\* line is left on the axes.
C11_BaselinesShown ==
    /\ BaselineLinesOn(axSpectrumLines)
          = {baselines[i].line[1] : i \in 1..Len(baselines)}
    /\ lastOp = [op |-> "update_baselines", arg |-> "_None_"] =>
          /\ baselines = <<>>
          /\ BaselineLinesOn(axSpectrumLines) = {}

====
